---- MODULE Spec2Model ----
(***************************************************************************)
(* Model of the golbazaar point-of-sale endpoints:                         *)
(*   golbazaar/shift.py        open_shift, close_shift, get_active_shift,  *)
(*                             sync_pos_invoices                           *)
(*   golbazaar/pos_invoice.py  sync_pos_transaction and its four handlers  *)
(*   golbazaar/api.py          get_items, get_customers, login_device,     *)
(*                             get_api_keys                                *)
(*   golbazaar/customer.py     create_customer                             *)
(*                                                                         *)
(* The endpoints run on one database connection.  `db` is what that        *)
(* connection sees (committed rows and the rows the running request has    *)
(* written), `committed` is what a rollback returns to.  Requests run one  *)
(* at a time.  Money is counted in cents, so 0.01 is 1.                    *)
(***************************************************************************)
EXTENDS Integers, Sequences, FiniteSets, TLC

VARIABLES db, committed, pc, retry, args, response, sync, sale, page, auth, cust

vars == <<db, committed, pc, retry, args, response, sync, sale, page, auth, cust>>

\* What each group of endpoints leaves alone.
shiftVars == <<pc, retry, args, response>>
notShift == <<sync, sale, page, auth, cust>>

\* Python's None in a field that otherwise holds a string.
None == "None"

\* ---------------------------------------------------------------- bounds
\* POS Opening Entries that may exist.
MaxShifts == 3

Users == {"u1", "u2"}
Profiles == {"p1", "p2"}

\* shift.py:17 and shift.py:132
max_retries == 5

\* ------------------------------------------------------- shift documents
\* A document's name is its position in its table; 0 is no document.
NoArgs == [user |-> None, pos_profile |-> None, shift_id |-> 0]

NoResponse ==
    [op |-> "none", result |-> "none", text |-> "", shift_id |-> 0, closing_entry |-> 0]

EmptyDb == [opening |-> <<>>, closing |-> <<>>, invoices |-> <<>>, payment_entries |-> <<>>]

\* frappe.get_doc({...}) of open_shift; insert() stores the draft.
InsertOpening(d, a) ==
    [d EXCEPT !.opening = Append(@,
        [user |-> a.user, pos_profile |-> a.pos_profile, status |-> "Draft",
         docstatus |-> 0, modified |-> 1, pos_closing_entry |-> 0])]

\* doc.submit(): a submitted POS Opening Entry without closing entry is Open.
SubmitOpening(d, name) ==
    [d EXCEPT !.opening[name] =
        [@ EXCEPT !.docstatus = 1, !.status = "Open", !.modified = @ + 1]]

\* The exists query with the status of a draft, which no submitted entry has.
ExistingDraft(d, user, pos_profile) ==
    LET S == {n \in 1..Len(d.opening) :
                /\ d.opening[n].user = user
                /\ d.opening[n].pos_profile = pos_profile
                /\ d.opening[n].status = "Draft"}
    IN IF S = {} THEN 0 ELSE CHOOSE n \in S : \A m \in S : n <= m

\* frappe.db.exists("POS Opening Entry", {user, pos_profile, status: Open}):
\* the name of a matching entry, or 0 (None).
ExistingOpen(d, user, pos_profile) ==
    LET S == {n \in 1..Len(d.opening) :
                /\ d.opening[n].user = user
                /\ d.opening[n].pos_profile = pos_profile
                /\ d.opening[n].status = "Open"}
    IN IF S = {} THEN 0 ELSE CHOOSE n \in S : \A m \in S : n <= m

\* A rollback that forgets the transaction: the written rows stay.
RollbackKeeps(d) == d

\* frappe.db.rollback(): the connection sees the committed rows again.
Rollback(d) == committed

\* closing_doc.insert() of close_shift.
InsertClosing(d, opening_name) ==
    [d EXCEPT !.closing = Append(@, [pos_opening_entry |-> opening_name, docstatus |-> 0])]

\* closing_doc.submit(): the closing entry is submitted and its on_submit
\* links it to the opening entry, whose status becomes Closed; the opening
\* entry's modified stamp moves.
SubmitClosing(d, name) ==
    LET o == d.closing[name].pos_opening_entry
    IN [d EXCEPT !.closing[name].docstatus = 1,
                 !.opening[o] = [@ EXCEPT !.pos_closing_entry = name,
                                          !.status = "Closed",
                                          !.modified = @ + 1]]

\* A save that writes the stale copy without comparing modified stamps.
SaveOpeningUnchecked(d, name, opening) ==
    [d EXCEPT !.opening[name] = [opening EXCEPT !.modified = d.opening[name].modified + 1]]

\* opening.save(ignore_permissions=True) inside try/except
\* TimestampMismatchError: the copy read at the start of the attempt is
\* written unless the stored document has been modified since.
SaveOpening(d, name, opening) ==
    IF d.opening[name].modified # opening.modified
    THEN d
    ELSE [d EXCEPT !.opening[name] = [opening EXCEPT !.modified = @ + 1]]

\* --------------------------------------------------------------- open_shift
Outcomes == {"ok", "deadlock_insert", "deadlock_submit", "error"}

\* The except branches shared by open_shift and close_shift: rollback, then
\* retry after a deadlock while retry < max_retries - 1, else raise.
Failed(written, outcome, op) ==
    /\ db' = Rollback(written)
    /\ committed' = committed
    /\ IF outcome # "error" /\ retry < max_retries - 1
       THEN /\ retry' = retry + 1
            /\ UNCHANGED <<pc, args, response>>
       ELSE /\ pc' = "idle"
            /\ retry' = 0
            /\ args' = NoArgs
            /\ response' = [NoResponse EXCEPT !.op = op, !.result = "raised",
                              !.text = IF outcome = "error" THEN "Exception"
                                       ELSE "QueryDeadlockError"]

Return(r) ==
    /\ pc' = "idle"
    /\ retry' = 0
    /\ args' = NoArgs
    /\ response' = r

\* open_shift up to the retry loop.
CallOpenShift(pos_profile, user, posting) ==
    /\ pc = "idle"
    /\ UNCHANGED notShift
    /\ Len(committed.opening) < MaxShifts
    /\ UNCHANGED <<db, committed>>
    /\ IF ~posting
       THEN Return([NoResponse EXCEPT !.op = "open_shift", !.result = "error",
                      !.text = "posting_date and posting_time are required"])
       ELSE /\ pc' = "open_shift"
            /\ retry' = 0
            /\ args' = [NoArgs EXCEPT !.user = user, !.pos_profile = pos_profile]
            /\ response' = NoResponse

\* One pass of open_shift's retry loop.
OpenShiftAttempt(outcome) ==
    /\ pc = "open_shift"
    /\ UNCHANGED notShift
    /\ LET existing == ExistingOpen(db, args.user, args.pos_profile)
           inserted == InsertOpening(db, args)
           name == Len(inserted.opening)
           submitted == SubmitOpening(inserted, name)
       IN IF existing # 0
          THEN /\ UNCHANGED <<db, committed>>
               /\ Return([NoResponse EXCEPT !.op = "open_shift", !.result = "error",
                            !.text = "Shift already open", !.shift_id = existing])
          ELSE CASE outcome = "ok" ->
                      /\ db' = submitted
                      /\ committed' = submitted
                      /\ Return([NoResponse EXCEPT !.op = "open_shift",
                                   !.result = "message",
                                   !.text = "Shift opened successfully",
                                   !.shift_id = name])
                 [] outcome = "deadlock_insert" -> Failed(db, outcome, "open_shift")
                 [] outcome = "deadlock_submit" -> Failed(inserted, outcome, "open_shift")
                 [] OTHER -> Failed(inserted, outcome, "open_shift")

\* ---------------------------------------------------------- get_active_shift
GetActiveShift(user, pos_profile) ==
    /\ pc = "idle"
    /\ UNCHANGED notShift
    /\ UNCHANGED <<db, committed>>
    /\ Return([NoResponse EXCEPT !.op = "get_active_shift", !.result = "shift",
                 !.shift_id = ExistingOpen(db, user, pos_profile)])

\* -------------------------------------------------------------- close_shift
\* close_shift up to the retry loop.
CallCloseShift(shift_id, period_end_date) ==
    /\ pc = "idle"
    /\ UNCHANGED notShift
    /\ UNCHANGED <<db, committed>>
    /\ IF ~period_end_date
       THEN Return([NoResponse EXCEPT !.op = "close_shift", !.result = "error",
                      !.text = "period_end_date is required"])
       ELSE /\ pc' = "close_shift"
            /\ retry' = 0
            /\ args' = [NoArgs EXCEPT !.shift_id = shift_id]
            /\ response' = NoResponse

\* One pass of close_shift's retry loop.
CloseShiftAttempt(outcome) ==
    /\ pc = "close_shift"
    /\ UNCHANGED notShift
    /\ IF args.shift_id \notin 1..Len(db.opening)
       THEN \* frappe.get_doc raises DoesNotExistError: the generic except.
            Failed(db, "error", "close_shift")
       ELSE LET opening == db.opening[args.shift_id]
                inserted == InsertClosing(db, args.shift_id)
                name == Len(inserted.closing)
                submitted == SubmitClosing(inserted, name)
                saved == SaveOpening(submitted, args.shift_id, opening)
            IN IF opening.status = "Closed"
               THEN /\ UNCHANGED <<db, committed>>
                    /\ Return([NoResponse EXCEPT !.op = "close_shift", !.result = "error",
                                 !.text = "Shift already closed"])
               ELSE CASE outcome = "ok" ->
                           /\ db' = saved
                           /\ committed' = saved
                           /\ Return([NoResponse EXCEPT !.op = "close_shift",
                                        !.result = "message",
                                        !.text = "Shift closed successfully",
                                        !.shift_id = args.shift_id,
                                        !.closing_entry = name])
                      [] outcome = "deadlock_insert" -> Failed(db, outcome, "close_shift")
                      [] outcome = "deadlock_submit" -> Failed(inserted, outcome, "close_shift")
                      [] OTHER -> Failed(submitted, outcome, "close_shift")

\* -------------------------------------------------------- sync_pos_invoices
\* Invoices of one invoices_json.
MaxBatch == 2

InvoiceIds == {"a", "b"}

\* An invoice of the batch: its system_invoice_id and whether it carries both
\* posting_date and posting_time.
InvoiceDicts == [system_invoice_id : InvoiceIds, posting : BOOLEAN]

RECURSIVE SeqsUpTo(_, _)
SeqsUpTo(S, n) ==
    IF n = 0 THEN {<<>>}
    ELSE LET shorter == SeqsUpTo(S, n - 1)
         IN shorter \cup {Append(q, x) : q \in {r \in shorter : Len(r) = n - 1}, x \in S}

NoSync == [request |-> <<>>, fails |-> {}, status |-> "none", synced |-> <<>>, errors |-> <<>>]

\* An exists query on the document name, which no system_invoice_id is.
InvoiceExistsByName(d, id) == FALSE

\* frappe.db.exists("POS Invoice", {"custom_system_invoice_id": id}).
InvoiceExists(d, id) ==
    \E n \in 1..Len(d.invoices) : d.invoices[n].custom_system_invoice_id = id

\* The loop without its commit.
CommitSkipped(st) == st

\* frappe.db.commit() after doc.insert.
CommitInvoice(st) == [st EXCEPT !.committed = st.db]

\* One pass of the for loop: invoice `inv` at position i; `fail` says
\* whether building or inserting the document raises.  Entries of synced and
\* errors carry the position of the invoice they report.
SyncOne(st, inv, i, fail) ==
    IF InvoiceExists(st.db, inv.system_invoice_id)
    THEN [st EXCEPT !.synced = Append(@,
            [idx |-> i, created |-> FALSE, id |-> inv.system_invoice_id, name |-> 0])]
    ELSE IF ~inv.posting
    THEN [st EXCEPT !.errors = Append(@,
            [idx |-> i, invoice |-> inv.system_invoice_id,
             error |-> "posting_date and posting_time are required"])]
    ELSE IF fail
    THEN [st EXCEPT !.db = st.committed,
                    !.errors = Append(@,
            [idx |-> i, invoice |-> inv.system_invoice_id, error |-> "Exception"])]
    ELSE LET inserted == [st EXCEPT !.db.invoices = Append(@,
                            [custom_system_invoice_id |-> inv.system_invoice_id,
                             docstatus |-> 1])]
             done == CommitInvoice(inserted)
         IN [done EXCEPT !.synced = Append(@,
                [idx |-> i, created |-> TRUE, id |-> inv.system_invoice_id,
                 name |-> Len(inserted.db.invoices)])]

RECURSIVE SyncLoop(_, _, _, _)
SyncLoop(st, invoices, i, fails) ==
    IF i > Len(invoices) THEN st
    ELSE SyncLoop(SyncOne(st, invoices[i], i, i \in fails), invoices, i + 1, fails)

\* sync_pos_invoices(shift_id, invoices_json): `valid` is whether
\* json.loads accepts invoices_json, `invoices` what it parses to and `fails`
\* the positions whose insert raises.
SyncPosInvoices(valid, invoices, fails) ==
    /\ pc = "idle"
    /\ UNCHANGED <<shiftVars, sale, page, auth, cust>>
    /\ IF ~valid
       THEN /\ sync' = [NoSync EXCEPT !.status = "Invalid JSON"]
            /\ UNCHANGED <<db, committed>>
       ELSE LET st == SyncLoop([db |-> db, committed |-> committed,
                                synced |-> <<>>, errors |-> <<>>], invoices, 1, fails)
            IN /\ db' = st.db
               /\ committed' = st.committed
               /\ sync' = [request |-> invoices, fails |-> fails, status |-> "ok",
                           synced |-> st.synced, errors |-> st.errors]

\* ------------------------------------------------------------ pos_invoice.py
Max(a, b) == IF a >= b THEN a ELSE b
Abs(a) == IF a >= 0 THEN a ELSE 0 - a

\* n / d for n >= 0, rounded to the nearest integer, a half to the even one.
RoundDiv(n, d) ==
    LET q == n \div d
        r == n % d
    IN IF 2 * r < d THEN q
       ELSE IF 2 * r > d THEN q + 1
       ELSE IF q % 2 = 0 THEN q ELSE q + 1

\* n / d rounded, for either sign of n.
RoundDivSigned(n, d) == IF n >= 0 THEN RoundDiv(n, d) ELSE 0 - RoundDiv(0 - n, d)

RECURSIVE SumSeq(_)
SumSeq(q) == IF q = <<>> THEN 0 ELSE Head(q) + SumSeq(Tail(q))

\* Item Price rows: the price_list_rate of an item_code, 0 when it has none.
PriceList == ("A" :> 1000) @@ ("B" :> 0)

\* Item Tax Template Detail rows of each template, ordered by idx.
ItemTaxTemplateDetail ==
    ("T1" :> <<[tax_type |-> "VAT - C", tax_rate |-> 10]>>)
    @@ ("T2" :> <<[tax_type |-> "VAT - C", tax_rate |-> 5],
                  [tax_type |-> "CESS - C", tax_rate |-> 1]>>)

\* A payload dict is a function from the keys it has (with a value that is
\* not None); pop removes keys.
Has(item, key) == key \in DOMAIN item
Get(item, key, default) == IF key \in DOMAIN item THEN item[key] ELSE default
Pop(item, keys) == [k \in DOMAIN item \ keys |-> item[k]]

\* The discount loop with the percentage tested before the amount.
NormalizeItemPercentageFirst(item) ==
    IF Has(item, "rate") /\ (Has(item, "discount_amount") \/ Has(item, "discount_percentage"))
    THEN LET base_rate == item["rate"]
             effective100 ==
                IF Has(item, "discount_percentage")
                THEN base_rate * (100 - item["discount_percentage"])
                ELSE (base_rate - item["discount_amount"]) * 100
             popped == Pop(item, {"discount_amount", "discount_percentage"})
         IN [popped EXCEPT !["rate"] = RoundDiv(Max(effective100, 0), 100)]
    ELSE item

\* create_pos_sale, the body of `for item in items`: the effective rate in
\* hundredths of a cent, clamped at 0, rounded to the cent, and the discount
\* fields popped.
NormalizeItem(item) ==
    IF Has(item, "rate") /\ (Has(item, "discount_amount") \/ Has(item, "discount_percentage"))
    THEN LET base_rate == item["rate"]
             effective100 ==
                IF Has(item, "discount_amount")
                THEN (base_rate - item["discount_amount"]) * 100
                ELSE base_rate * (100 - item["discount_percentage"])
             popped == Pop(item, {"discount_amount", "discount_percentage"})
         IN [popped EXCEPT !["rate"] = RoundDiv(Max(effective100, 0), 100)]
    ELSE item

\* The row that frappe.get_doc(doc_fields).insert() makes of a payload item:
\* the fields given are stored, a missing number is 0, the price_list_rate
\* comes from the Item Price, and an item without rate gets that price.
DocItem(item) ==
    [item_code |-> item["item_code"],
     qty |-> Get(item, "qty", 0),
     price_list_rate |-> PriceList[item["item_code"]],
     rate |-> Get(item, "rate", PriceList[item["item_code"]]),
     discount_amount |-> Get(item, "discount_amount", 0),
     discount_percentage |-> Get(item, "discount_percentage", 0),
     item_tax_template |-> Get(item, "item_tax_template", None)]

\* create_pos_sale, the body of `for item in doc.items` after insert.
FixItemRate(it) ==
    IF it.discount_amount # 0 /\ it.price_list_rate # 0
    THEN LET expected_rate == it.price_list_rate - it.discount_amount
         IN IF Abs(it.rate - expected_rate) > 1
            THEN [it EXCEPT !.rate = expected_rate] ELSE it
    ELSE IF it.discount_percentage # 0 /\ it.price_list_rate # 0
    THEN LET expected_rate ==
                RoundDivSigned(it.price_list_rate * (100 - it.discount_percentage), 100)
         IN IF Abs(it.rate - expected_rate) > 1
            THEN [it EXCEPT !.rate = expected_rate] ELSE it
    ELSE it

MapSeq(Op(_), q) == [i \in 1..Len(q) |-> Op(q[i])]

\* flt(doc.rounded_total) or flt(doc.grand_total) or 0
InvoiceTotal(doc) == IF doc.rounded_total # 0 THEN doc.rounded_total ELSE doc.grand_total

\* sum(flt(p.get("amount", 0)) for p in doc.payments)
PaymentTotal(doc) == SumSeq(doc.payments)

RECURSIVE TaxAmount(_, _)
TaxAmount(taxes, net) ==
    IF taxes = <<>> THEN 0
    ELSE (IF Head(taxes).included_in_print_rate = 1 THEN 0
          ELSE RoundDivSigned(net * Head(taxes).rate, 100))
         + TaxAmount(Tail(taxes), net)

\* doc.calculate_taxes_and_totals(), the document engine's recalculation, in
\* outline: the grand total is the items' amounts plus the taxes not included
\* in the print rate, the rounded total is 0 when rounding is disabled, and
\* paid_amount and outstanding_amount are either recomputed from the payment
\* rows or left as they are, depending on the engine (doc.paid_from_rows).
CalculateTaxesAndTotals(doc) ==
    LET net == SumSeq([i \in 1..Len(doc.items) |-> doc.items[i].qty * doc.items[i].rate])
        grand == net + TaxAmount(doc.taxes, net)
        rounded == IF doc.disable_rounded_total THEN 0
                   ELSE 100 * RoundDivSigned(grand, 100)
        totalled == [doc EXCEPT !.grand_total = grand, !.rounded_total = rounded]
    IN IF doc.paid_from_rows
       THEN [totalled EXCEPT !.paid_amount = PaymentTotal(doc),
                             !.outstanding_amount = InvoiceTotal(totalled) - PaymentTotal(doc)]
       ELSE totalled

\* tax_map of create_pos_sale as the list of its values in insertion order:
\* for every tax_type the first detail seen, over the items in order.
RECURSIVE AddDetails(_, _)
AddDetails(tax_map, details) ==
    IF details = <<>> THEN tax_map
    ELSE LET d == Head(details)
             seen == \E k \in 1..Len(tax_map) : tax_map[k].account_head = d.tax_type
         IN AddDetails(IF seen THEN tax_map
                       ELSE Append(tax_map, [account_head |-> d.tax_type, rate |-> d.tax_rate]),
                       Tail(details))

RECURSIVE TaxMap(_, _)
TaxMap(tax_map, items) ==
    IF items = <<>> THEN tax_map
    ELSE TaxMap(IF Head(items).item_tax_template # None
                THEN AddDetails(tax_map, ItemTaxTemplateDetail[Head(items).item_tax_template])
                ELSE tax_map,
                Tail(items))

RECURSIVE AppendTaxes(_, _, _)
AppendTaxes(doc, tax_map, existing_tax_accounts) ==
    IF tax_map = <<>> THEN doc
    ELSE AppendTaxes(
            IF Head(tax_map).account_head \notin existing_tax_accounts
            THEN [doc EXCEPT !.taxes = Append(@,
                    [charge_type |-> "On Net Total",
                     account_head |-> Head(tax_map).account_head,
                     rate |-> Head(tax_map).rate,
                     included_in_print_rate |->
                        IF doc.included_in_print_rate # 0 THEN 1 ELSE 0])]
            ELSE doc,
            Tail(tax_map), existing_tax_accounts)

\* create_pos_sale from `has_item_tax_template = ...` to the recalculation
\* after the tax rows were added.
ExpandTaxes(doc) ==
    LET tax_map == TaxMap(<<>>, doc.items)
        existing_tax_accounts == {doc.taxes[k].account_head : k \in 1..Len(doc.taxes)}
    IN IF tax_map = <<>> THEN doc
       ELSE CalculateTaxesAndTotals(AppendTaxes(doc, tax_map, existing_tax_accounts))

\* The tax rows left as they were added.
SetIncludedInPrintRateNever(doc) == doc

\* create_pos_sale, `if doc.included_in_print_rate:`.
SetIncludedInPrintRate(doc) ==
    IF doc.included_in_print_rate # 0
    THEN CalculateTaxesAndTotals(
            [doc EXCEPT !.taxes = [k \in 1..Len(doc.taxes) |->
                [doc.taxes[k] EXCEPT !.included_in_print_rate = 1]]])
    ELSE doc

\* create_pos_sale, `# Final check: ensure paid_amount matches exactly`.
FinalCheck(doc) ==
    IF Abs(doc.paid_amount - InvoiceTotal(doc)) > 1
    THEN [doc EXCEPT !.paid_amount = InvoiceTotal(doc), !.outstanding_amount = 0]
    ELSE doc

\* create_pos_sale from `invoice_total = ...` to the final check: the first
\* payment row takes the difference; without payment rows the call throws
\* (doc.thrown).
Reconcile(doc) ==
    LET invoice_total == InvoiceTotal(doc)
        payment_total == PaymentTotal(doc)
    IN IF Abs(payment_total - invoice_total) > 1
       THEN IF doc.payments # <<>>
            THEN FinalCheck([doc EXCEPT
                    !.payments[1] = @ + (invoice_total - payment_total),
                    !.paid_amount = invoice_total,
                    !.outstanding_amount = 0])
            ELSE [doc EXCEPT !.thrown = TRUE]
       ELSE FinalCheck(doc)

\* create_pos_sale from doc.save() to just before doc.submit(): save and
\* reload recalculate, and a remaining difference goes to the first payment.
FinalValidation(doc) ==
    LET saved == CalculateTaxesAndTotals(doc)
        final_invoice_total == InvoiceTotal(saved)
        final_payment_total == PaymentTotal(saved)
    IN IF Abs(final_payment_total - final_invoice_total) > 1 /\ saved.payments # <<>>
       THEN CalculateTaxesAndTotals([saved EXCEPT
                !.payments[1] = @ + (final_invoice_total - final_payment_total),
                !.paid_amount = final_invoice_total,
                !.outstanding_amount = 0])
       ELSE saved

NoDoc ==
    [items |-> <<>>, payments |-> <<>>, taxes |-> <<>>, included_in_print_rate |-> 0,
     disable_rounded_total |-> FALSE, paid_from_rows |-> FALSE,
     grand_total |-> 0, rounded_total |-> 0, paid_amount |-> 0, outstanding_amount |-> 0,
     thrown |-> FALSE]

\* What a handler hands back: how it ended, the handlers that ran, the
\* documents it inserted and submitted, and for a sale the invoice as it
\* stood when submit was called.
Outcome(result, text, handler, inserted, submitted, at_submit, doc) ==
    [result |-> result, text |-> text, handlers |-> handler, inserted |-> inserted,
     submitted |-> submitted, at_submit |-> at_submit, doc |-> doc]

\* frappe.get_doc(doc_fields) and doc.insert(): the normalized items, the
\* payment amounts, the tax rows of the POS Profile, paid_amount 0.
InsertSale(data, items) ==
    [NoDoc EXCEPT !.items = MapSeq(DocItem, items),
                  !.payments = data.payments,
                  !.taxes = data.profile_taxes,
                  !.included_in_print_rate = data.included_in_print_rate,
                  !.disable_rounded_total = data.disable_rounded_total,
                  !.paid_from_rows = data.paid_from_rows]

\* create_pos_sale(data); data.raises is the call of the document engine
\* that raises, if any.
CreatePosSale(data) ==
    IF ~data.posting
    THEN Outcome("raised", "posting_date and posting_time are required for POS Sale",
                 {"create_pos_sale"}, 0, 0, FALSE, NoDoc)
    ELSE IF data.raises = "insert"
    THEN Outcome("raised", "insert", {"create_pos_sale"}, 0, 0, FALSE, NoDoc)
    ELSE LET items == MapSeq(NormalizeItem, data.items)
             inserted == InsertSale(data, items)
             fixed == [inserted EXCEPT !.items = MapSeq(FixItemRate, inserted.items)]
             taxed == ExpandTaxes(CalculateTaxesAndTotals(fixed))
             final == CalculateTaxesAndTotals(SetIncludedInPrintRate(taxed))
             reconciled == Reconcile(final)
             validated == FinalValidation(reconciled)
         IN IF reconciled.thrown
            THEN Outcome("raised", "Payment amount mismatch", {"create_pos_sale"},
                         1, 0, FALSE, reconciled)
            ELSE IF data.raises = "submit"
            THEN Outcome("raised", "submit", {"create_pos_sale"}, 1, 0, TRUE, validated)
            ELSE Outcome("ok", "POS Sale created", {"create_pos_sale"}, 1, 1, TRUE, validated)

\* A refund that inserts without looking at return_against.
CreatePosRefundUnchecked(data) ==
    IF data.raises = "insert"
    THEN Outcome("raised", "insert", {"create_pos_refund"}, 0, 0, FALSE, NoDoc)
    ELSE IF data.raises = "submit"
    THEN Outcome("raised", "submit", {"create_pos_refund"}, 1, 0, FALSE, NoDoc)
    ELSE Outcome("ok", "POS Refund created", {"create_pos_refund"}, 1, 1, FALSE, NoDoc)

\* create_pos_refund(data)
CreatePosRefund(data) ==
    IF ~data.return_against
    THEN Outcome("raised", "return_against is required for refund",
                 {"create_pos_refund"}, 0, 0, FALSE, NoDoc)
    ELSE IF data.raises = "insert"
    THEN Outcome("raised", "insert", {"create_pos_refund"}, 0, 0, FALSE, NoDoc)
    ELSE IF data.raises = "submit"
    THEN Outcome("raised", "submit", {"create_pos_refund"}, 1, 0, FALSE, NoDoc)
    ELSE Outcome("ok", "POS Refund created", {"create_pos_refund"}, 1, 1, FALSE, NoDoc)

\* create_pos_exchange(data): the return invoice, then the new sale; a raise
\* of the engine is taken on the new sale.
CreatePosExchange(data) ==
    IF ~data.return_against
    THEN Outcome("raised", "return_against required for exchange",
                 {"create_pos_exchange"}, 0, 0, FALSE, NoDoc)
    ELSE IF data.raises = "insert"
    THEN Outcome("raised", "insert", {"create_pos_exchange"}, 1, 1, FALSE, NoDoc)
    ELSE IF data.raises = "submit"
    THEN Outcome("raised", "submit", {"create_pos_exchange"}, 2, 1, FALSE, NoDoc)
    ELSE Outcome("ok", "Exchange completed", {"create_pos_exchange"}, 2, 2, FALSE, NoDoc)

\* log_gateway_refund(data)
LogGatewayRefund(data) ==
    IF ~data.reference_date
    THEN Outcome("raised", "reference_date is required for gateway refund log",
                 {"log_gateway_refund"}, 0, 0, FALSE, NoDoc)
    ELSE IF data.raises = "insert"
    THEN Outcome("raised", "insert", {"log_gateway_refund"}, 0, 0, FALSE, NoDoc)
    ELSE IF data.raises = "submit"
    THEN Outcome("raised", "submit", {"log_gateway_refund"}, 1, 0, FALSE, NoDoc)
    ELSE Outcome("ok", "Gateway refund logged", {"log_gateway_refund"}, 1, 1, FALSE, NoDoc)

\* The dispatch of sync_pos_transaction; a type of None or "" is missing.
Dispatch(data) ==
    IF data.type \in {None, ""}
    THEN Outcome("raised", "Missing 'type' in request", {}, 0, 0, FALSE, NoDoc)
    ELSE IF data.type = "sale" THEN CreatePosSale(data)
    ELSE IF data.type = "refund" THEN CreatePosRefund(data)
    ELSE IF data.type = "exchange" THEN CreatePosExchange(data)
    ELSE IF data.type = "gateway_refund" THEN LogGatewayRefund(data)
    ELSE Outcome("raised", "Unknown transaction type", {}, 0, 0, FALSE, NoDoc)

NoData ==
    [type |-> None, posting |-> FALSE, return_against |-> FALSE, reference_date |-> FALSE,
     items |-> <<>>, payments |-> <<>>, profile_taxes |-> <<>>,
     included_in_print_rate |-> 0, disable_rounded_total |-> FALSE,
     paid_from_rows |-> FALSE, raises |-> "none"]

NoSale == [stage |-> "none", request |-> NoData,
           out |-> Outcome("none", "", {}, 0, 0, FALSE, NoDoc)]

\* The submitted documents of a request: j POS Invoices, or a Payment Entry.
Submitted(d, data, n) ==
    IF data.type = "gateway_refund"
    THEN [d EXCEPT !.payment_entries = @ \o [i \in 1..n |-> [docstatus |-> 1]]]
    ELSE [d EXCEPT !.invoices = @ \o
            [i \in 1..n |-> [custom_system_invoice_id |-> None, docstatus |-> 1]]]

\* sync_pos_transaction(**kwargs) with the request the client sent; the
\* request handler commits when the call returns and rolls back when it
\* raises.
SyncPosTransaction ==
    /\ pc = "idle"
    /\ sale.stage = "request"
    /\ UNCHANGED <<shiftVars, sync, page, auth, cust>>
    /\ LET out == Dispatch(sale.request)
       IN /\ sale' = [sale EXCEPT !.stage = "done", !.out = out]
          /\ IF out.result = "ok"
             THEN /\ db' = Submitted(db, sale.request, out.submitted)
                  /\ committed' = db'
             ELSE /\ db' = committed
                  /\ committed' = committed

\* -------------------------------------------------------------------- api.py
\* Rows of tabItem and of tabCustomer; a row's name is its number.
MaxRows == 2

Names == 1..MaxRows

\* The rows of S ordered by modified desc, name asc.
RECURSIVE OrderByModifiedDescNameAsc(_, _)
OrderByModifiedDescNameAsc(table, S) ==
    IF S = {} THEN <<>>
    ELSE LET first == CHOOSE n \in S : \A m \in S :
                         \/ table[n].modified > table[m].modified
                         \/ (table[n].modified = table[m].modified /\ n <= m)
         IN <<first>> \o OrderByModifiedDescNameAsc(table, S \ {first})

\* LIMIT page_length OFFSET start
LimitOffset(rows, page_length, start) ==
    SubSeq(rows, start + 1, IF start + page_length <= Len(rows)
                            THEN start + page_length ELSE Len(rows))

\* has_more with the last row of the table counted as one more page.
HasMoreInclusive(start, page_length, total_count) == (start + page_length) <= total_count

\* has_more = (start + page_length) < total_count
HasMore(start, page_length, total_count) == (start + page_length) < total_count

\* The payloads: a page with its pagination metadata, the bare list the
\* search by term returns, and an error message with its HTTP status.
PageOut(rows, total, page_length, start, has_more) ==
    [kind |-> "page", http_status_code |-> 200, rows |-> rows, total |-> total,
     limit |-> page_length, offset |-> start, has_more |-> has_more,
     next_offset |-> IF has_more THEN <<start + page_length>> ELSE <<>>]

ItemsOnlyOut(result) ==
    [kind |-> "items", http_status_code |-> 200, rows |-> result, total |-> 0,
     limit |-> 0, offset |-> 0, has_more |-> FALSE, next_offset |-> <<>>]

ErrorOut(code) ==
    [kind |-> "error", http_status_code |-> code, rows |-> <<>>, total |-> 0,
     limit |-> 0, offset |-> 0, has_more |-> FALSE, next_offset |-> <<>>]

NoOut == [ErrorOut(0) EXCEPT !.kind = "none"]

\* last_updated_time: not given, not in the format, or a time.
Given(last_updated_time) == last_updated_time.kind # "none"

\* modified > %(last_updated)s, with >= in place of >.
ModifiedSince(row, last_updated_time) == row.modified >= last_updated_time.time

\* AND modified > %(last_updated)s
ModifiedAfter(row, last_updated_time) == row.modified > last_updated_time.time

\* The UPDATE setting modified to the start of time instead of the time of
\* the call.
MarkSyncedEpoch(table, names, current_time) ==
    [n \in DOMAIN table |->
        IF \E k \in 1..Len(names) : names[k] = n
        THEN [table[n] EXCEPT !.modified = 0] ELSE table[n]]

\* UPDATE ... SET modified = current_time WHERE name IN (the returned rows).
MarkSynced(table, names, current_time) ==
    [n \in DOMAIN table |->
        IF \E k \in 1..Len(names) : names[k] = n
        THEN [table[n] EXCEPT !.modified = current_time] ELSE table[n]]

\* The block that marks the returned rows as synced, run when
\* last_updated_time is given and the page is not empty.  The query mixes the
\* named placeholder %(modified)s with positional %s and is given a list of
\* values: a database driver that formats it with Python's % raises, the
\* except logs the error and no row is updated (req.update_raises); a driver
\* that accepts it updates the rows and commits.
TryMarkSynced(table, names, req) ==
    IF ~Given(req.last_updated_time) \/ names = <<>> \/ req.update_raises
    THEN table
    ELSE MarkSynced(table, names, req.now)

\* get_customers(start, page_length, search_term, last_updated_time): the
\* payload and the table afterwards.  A negative LIMIT or OFFSET makes the
\* SELECT raise, which the outer except answers with status 500.
GetCustomersOut(table, req) ==
    LET lut == req.last_updated_time
        selected == {n \in DOMAIN table :
                        /\ ~table[n].disabled
                        /\ req.search_term # "" => table[n].matches
                        /\ Given(lut) => ModifiedAfter(table[n], lut)}
        total_count == Cardinality(selected)
    IN IF lut.kind = "invalid" THEN [out |-> ErrorOut(400), table |-> table]
       ELSE IF req.start < 0 \/ req.page_length < 0
       THEN [out |-> ErrorOut(500), table |-> table]
       ELSE LET customers_data ==
                    LimitOffset(OrderByModifiedDescNameAsc(table, selected),
                                req.page_length, req.start)
            IN IF customers_data = <<>>
               THEN [out |-> PageOut(<<>>, total_count, req.page_length, req.start, FALSE),
                     table |-> table]
               ELSE [out |-> PageOut(customers_data, total_count, req.page_length, req.start,
                                     HasMore(req.start, req.page_length, total_count)),
                     table |-> TryMarkSynced(table, customers_data, req)]

\* get_items(start, page_length, pos_profile, item_group, price_list,
\* search_term, last_updated_time).  A row's `listed` is whether it passes the
\* fixed conditions of the WHERE clause (not disabled, no variants, sales item,
\* no fixed asset, in the item group, in stock when the profile hides
\* unavailable items); req.price_modified is the latest modified of an Item
\* Price; req.term_hit is the item search_by_term finds for the term and
\* filter_result_items keeps, 0 when there is none.
GetItemsOut(table, req) ==
    LET lut == req.last_updated_time
        modified_item_codes == {n \in DOMAIN table : ModifiedAfter(table[n], lut)}
        selected == {n \in DOMAIN table :
                        /\ table[n].listed
                        /\ req.search_term # "" => table[n].matches
                        /\ Given(lut) => ModifiedAfter(table[n], lut)}
        total_count == Cardinality(selected)
    IN IF lut.kind = "invalid" THEN [out |-> ErrorOut(400), table |-> table]
       ELSE IF /\ Given(lut)
               /\ req.search_term # ""
               /\ modified_item_codes = {}
               /\ ~(req.price_modified > lut.time)
       THEN [out |-> PageOut(<<>>, 0, req.page_length, req.start, FALSE), table |-> table]
       ELSE IF req.search_term # "" /\ ~req.price_list
       THEN [out |-> ErrorOut(200), table |-> table]
       ELSE IF req.search_term # "" /\ req.term_hit # 0
       THEN [out |-> ItemsOnlyOut(<<req.term_hit>>), table |-> table]
       ELSE IF req.start < 0 \/ req.page_length < 0
       THEN [out |-> ErrorOut(500), table |-> table]
       ELSE LET items_data ==
                    LimitOffset(OrderByModifiedDescNameAsc(table, selected),
                                req.page_length, req.start)
            IN IF items_data = <<>>
               THEN [out |-> PageOut(<<>>, total_count, req.page_length, req.start, FALSE),
                     table |-> table]
               ELSE [out |-> PageOut(items_data, total_count, req.page_length, req.start,
                                     HasMore(req.start, req.page_length, total_count)),
                     table |-> TryMarkSynced(table, items_data, req)]

NoLastUpdated == [kind |-> "none", time |-> 0]

NoRequest ==
    [endpoint |-> "none", start |-> 0, page_length |-> 0, search_term |-> "",
     last_updated_time |-> NoLastUpdated, price_list |-> TRUE, term_hit |-> 0,
     price_modified |-> 0, now |-> 0, update_raises |-> TRUE]

\* The caller of the paging endpoints: whether it pages through one result
\* set ("paging") or repeats an incremental sync ("cursor"), the rows its
\* earlier calls returned, the number of those calls and the table as it was
\* before the first one.
NoClient == [mode |-> "none", seen |-> <<>>, calls |-> 0, initial |-> <<>>]

NoPage == [stage |-> "none", request |-> NoRequest, customers |-> <<>>, items |-> <<>>,
           out |-> NoOut, client |-> NoClient]

GetCustomers ==
    /\ pc = "idle"
    /\ page.stage = "request"
    /\ page.request.endpoint = "get_customers"
    /\ UNCHANGED <<db, committed, shiftVars, sync, sale, auth, cust>>
    /\ LET r == GetCustomersOut(page.customers, page.request)
       IN page' = [page EXCEPT !.stage = "done", !.out = r.out, !.customers = r.table]

GetItems ==
    /\ pc = "idle"
    /\ page.stage = "request"
    /\ page.request.endpoint = "get_items"
    /\ UNCHANGED <<db, committed, shiftVars, sync, sale, auth, cust>>
    /\ LET r == GetItemsOut(page.items, page.request)
       IN page' = [page EXCEPT !.stage = "done", !.out = r.out, !.items = r.table]

\* Incremental syncs one caller makes.
MaxCalls == 3

\* The caller follows next_offset: the same call with start = next_offset.
FollowNextOffset ==
    /\ pc = "idle"
    /\ page.client.mode = "paging"
    /\ page.stage = "done"
    /\ page.out.kind = "page"
    /\ page.out.has_more
    /\ UNCHANGED <<db, committed, shiftVars, sync, sale, auth, cust>>
    /\ page' = [page EXCEPT !.stage = "request",
                            !.request.start = page.out.next_offset[1],
                            !.request.now = @ + 1,
                            !.client.seen = @ \o page.out.rows,
                            !.client.calls = @ + 1]

\* The caller repeats the incremental sync with last_updated_time set to
\* the time of the call that just returned.
AdvanceCursor ==
    /\ pc = "idle"
    /\ page.client.mode = "cursor"
    /\ page.stage = "done"
    /\ page.out.kind \in {"page", "items"}
    /\ page.client.calls + 1 < MaxCalls
    /\ UNCHANGED <<db, committed, shiftVars, sync, sale, auth, cust>>
    /\ page' = [page EXCEPT !.stage = "request",
                            !.request.last_updated_time =
                                [kind |-> "time", time |-> page.request.now],
                            !.request.now = @ + 1,
                            !.client.seen = @ \o page.out.rows,
                            !.client.calls = @ + 1]

\* ------------------------------------------------ login_device, get_api_keys
\* Hashes frappe.generate_hash gives out; hash k is the k-th one generated.
MaxHashes == 4

Passwords == {"pw", "wrong"}

Companies == {"c1", "c2"}

\* tabPOS Profile: its rows' company; `disabled` is drawn at the start.
PosProfileCompany == ("pp1" :> "c1") @@ ("pp2" :> "c1") @@ ("pp3" :> "c2")

\* A User document: api_key and api_secret are 0 while not set; saves counts
\* user_doc.save calls.
NewUser == [password |-> "pw", api_key |-> 0, api_secret |-> 0, saves |-> 0]

NoCall == [op |-> "none", user |-> None, password |-> "", secret_raises |-> FALSE]

NoReply ==
    [http_status_code |-> 0, error |-> "", user |-> None, companies |-> <<>>,
     api_key |-> 0, api_secret |-> 0]

\* users: tabUser; golpos: the users that are pos_user of a GolPos User, each
\* with the linked_company of its Company Link rows ("" for an empty link);
\* disabled: the disabled POS Profiles; hashes: the hashes generated so far.
NoAuth ==
    [users |-> <<>>, golpos |-> <<>>, disabled |-> {}, hashes |-> 0,
     call |-> NoCall, out |-> NoReply]

\* check_password with any password taken for the right one.
CheckPasswordAny(a, user_name, password) == user_name \in DOMAIN a.users

\* check_password(user_name, password): whether it returns instead of
\* raising AuthenticationError.
CheckPassword(a, user_name, password) ==
    /\ user_name \in DOMAIN a.users
    /\ a.users[user_name].password = password

\* A key taken for missing whatever it is.
MissingAlways(value) == TRUE

\* not user_doc.api_key, not api_secret_value
Missing(value) == value = 0

\* get_api_keys(user): the keys it returns and the state afterwards.
\* secret_raises is whether get_decrypted_password raises, which the except
\* turns into a missing secret.  A user that does not exist makes
\* frappe.get_doc raise.
GetApiKeysOut(a, user_name, secret_raises) ==
    IF user_name \notin DOMAIN a.users
    THEN [raised |-> TRUE, api_key |-> 0, api_secret |-> 0, auth |-> a]
    ELSE LET user_doc == a.users[user_name]
             no_key == Missing(user_doc.api_key)
             api_key == IF no_key THEN a.hashes + 1 ELSE user_doc.api_key
             hashes1 == IF no_key THEN a.hashes + 1 ELSE a.hashes
             api_secret_value == IF secret_raises THEN 0 ELSE user_doc.api_secret
             no_secret == Missing(api_secret_value)
             api_secret == IF no_secret THEN hashes1 + 1 ELSE api_secret_value
             hashes2 == IF no_secret THEN hashes1 + 1 ELSE hashes1
             changed == no_key \/ no_secret
             saved == [user_doc EXCEPT !.api_key = api_key, !.api_secret = api_secret,
                                       !.saves = @ + 1]
         IN [raised |-> FALSE, api_key |-> api_key, api_secret |-> api_secret,
             auth |-> IF changed
                      THEN [a EXCEPT !.users[user_name] = saved, !.hashes = hashes2]
                      ELSE a]

\* companies_data: for every Company Link with a linked_company, the names
\* of the POS Profiles of that company that are not disabled.
CompaniesData(a, user_name) ==
    LET links == a.golpos[user_name]
        linked == {links[k] : k \in 1..Len(links)} \ {""}
    IN [c \in linked |->
          {pp \in DOMAIN PosProfileCompany :
              PosProfileCompany[pp] = c /\ pp \notin a.disabled}]

\* login_device(user_name, password, device_id)
LoginDeviceOut(a, user_name, password, secret_raises) ==
    IF ~CheckPassword(a, user_name, password)
    THEN [a EXCEPT !.out = [NoReply EXCEPT !.http_status_code = 401,
                                           !.error = "Invalid credentials"]]
    ELSE IF user_name \notin DOMAIN a.golpos
    THEN [a EXCEPT !.out = [NoReply EXCEPT !.http_status_code = 200,
                                           !.error = "User not found in GolPos system"]]
    ELSE LET keys == GetApiKeysOut(a, user_name, secret_raises)
         IN IF keys.raised
            THEN [a EXCEPT !.out = [NoReply EXCEPT !.http_status_code = 500,
                                                   !.error = "Exception"]]
            ELSE [keys.auth EXCEPT !.out =
                     [NoReply EXCEPT !.http_status_code = 200,
                                     !.user = user_name,
                                     !.companies = CompaniesData(a, user_name),
                                     !.api_key = keys.api_key,
                                     !.api_secret = keys.api_secret]]

LoginDevice(user_name, password, secret_raises) ==
    /\ pc = "idle"
    /\ UNCHANGED <<db, committed, shiftVars, sync, sale, page, cust>>
    /\ auth' = [LoginDeviceOut(auth, user_name, password, secret_raises) EXCEPT
                  !.call = [op |-> "login_device", user |-> user_name,
                            password |-> password, secret_raises |-> secret_raises]]
    /\ auth'.hashes <= MaxHashes

GetApiKeys(user, secret_raises) ==
    /\ pc = "idle"
    /\ UNCHANGED <<db, committed, shiftVars, sync, sale, page, cust>>
    /\ LET keys == GetApiKeysOut(auth, user, secret_raises)
       IN auth' = [keys.auth EXCEPT
                     !.call = [op |-> "get_api_keys", user |-> user, password |-> "",
                               secret_raises |-> secret_raises],
                     !.out = IF keys.raised
                             THEN [NoReply EXCEPT !.http_status_code = 404,
                                                  !.error = "DoesNotExistError"]
                             ELSE [NoReply EXCEPT !.http_status_code = 200,
                                                  !.api_key = keys.api_key,
                                                  !.api_secret = keys.api_secret]]
    /\ auth'.hashes <= MaxHashes

\* -------------------------------------------------------------- customer.py
\* Customers the table holds.
MaxCustomers == 4

\* customer_name values: a plain one, and one with regular-expression
\* metacharacters in it.
BaseNames == {"john", "Acme (India)"}

\* The name "<base>" (n = 0) or "<base> (n)", followed by " - dup" when
\* dup > 0, which is what Customer.autoname appends to a customer_name that
\* is taken.
Name(base, n) == [base |-> base, n |-> n, dup |-> 0]

\* name REGEXP "^<base_name> \([0-9]+\)$".  frappe.db has no escape_string,
\* so the pattern holds base_name as it is: in "Acme (India)" the
\* parentheses form a group, and the pattern matches "Acme India (2)" but
\* not "Acme (India) (2)".
RegexpMatches(base_name, name) ==
    /\ name.base = base_name
    /\ name.n >= 2
    /\ name.dup = 0
    /\ base_name = "john"

\* name LIKE "<base_name> (%"
LikeMatches(base_name, name) == name.base = base_name /\ name.n >= 2

\* The while loop of the fallback: the first suffix from next_suffix on that
\* no customer has.
RECURSIVE FirstFreeSuffix(_, _, _)
FirstFreeSuffix(names, base_name, next_suffix) ==
    IF Name(base_name, next_suffix) \in names
    THEN FirstFreeSuffix(names, base_name, next_suffix + 1)
    ELSE next_suffix

\* _get_available_name(base_name); sql_raises is whether the SELECT raises.
GetAvailableName(names, base_name, sql_raises) ==
    IF Name(base_name, 0) \notin names THEN Name(base_name, 0)
    ELSE IF sql_raises THEN Name(base_name, FirstFreeSuffix(names, base_name, 2))
    ELSE LET suffixes == {name.n : name \in {x \in names :
                             LikeMatches(base_name, x) /\ RegexpMatches(base_name, x)}}
             max_suffix == IF suffixes = {} THEN 1
                           ELSE CHOOSE n \in suffixes : \A m \in suffixes : m <= n
         IN Name(base_name, max_suffix + 1)

\* doc.insert of a Customer whose customer_name is target_name: the document
\* is named after it, with " - k" appended when the name is taken.
InsertCustomer(names, target_name) ==
    IF target_name \notin names THEN target_name
    ELSE [target_name EXCEPT !.dup =
            CHOOSE k \in 1..(Cardinality(names) + 1) :
               /\ [target_name EXCEPT !.dup = k] \notin names
               /\ \A j \in 1..(k - 1) : [target_name EXCEPT !.dup = j] \in names]

NoCustomerCall ==
    [customer_name |-> "", company |-> FALSE, contact |-> "ok",
     auto_suffix_duplicate |-> TRUE, sql_raises |-> FALSE, insert_raises |-> FALSE]

NoCustomerOut == [result |-> "none", error |-> "", target_name |-> Name("", 0),
                  customer |-> Name("", 0)]

NoCust == [names |-> {}, call |-> NoCustomerCall, out |-> NoCustomerOut]

\* create_customer(customer_name, company, ..., mobile_no, email_id,
\* auto_suffix_duplicate).  c.contact says whether mobile_no and email_id
\* pass their checks, c.insert_raises whether doc.insert raises.
CreateCustomerOut(names, c) ==
    IF c.customer_name = "" \/ ~c.company
    THEN [NoCustomerOut EXCEPT !.result = "error", !.error = "Missing required fields"]
    ELSE IF c.contact = "mobile_no"
    THEN [NoCustomerOut EXCEPT !.result = "error", !.error = "Invalid mobile_no"]
    ELSE IF c.contact = "email_id"
    THEN [NoCustomerOut EXCEPT !.result = "error", !.error = "Invalid email_id format"]
    ELSE IF Name(c.customer_name, 0) \in names /\ ~c.auto_suffix_duplicate
    THEN [NoCustomerOut EXCEPT !.result = "error", !.error = "already exists"]
    ELSE LET target_name ==
                 IF Name(c.customer_name, 0) \in names
                 THEN GetAvailableName(names, c.customer_name, c.sql_raises)
                 ELSE Name(c.customer_name, 0)
         IN IF c.insert_raises
            THEN [NoCustomerOut EXCEPT !.result = "error", !.error = "Exception",
                                       !.target_name = target_name]
            ELSE [NoCustomerOut EXCEPT !.result = "created",
                                       !.target_name = target_name,
                                       !.customer = InsertCustomer(names, target_name)]

CreateCustomer(c) ==
    /\ pc = "idle"
    /\ Cardinality(cust.names) < MaxCustomers
    /\ UNCHANGED <<db, committed, shiftVars, sync, sale, page, auth>>
    /\ LET out == CreateCustomerOut(cust.names, c)
       IN cust' = [names |-> IF out.result = "created"
                             THEN cust.names \cup {out.customer} ELSE cust.names,
                   call |-> c, out |-> out]

\* ------------------------------------------------------------ specification
Init ==
    /\ db = EmptyDb
    /\ committed = EmptyDb
    /\ pc = "idle"
    /\ retry = 0
    /\ args = NoArgs
    /\ response = NoResponse
    /\ auth = NoAuth
    /\ cust = NoCust
    /\ sync = NoSync
    /\ sale = NoSale
    /\ page = NoPage

NextShift ==
    \/ \E p \in Profiles, u \in Users, posting \in BOOLEAN : CallOpenShift(p, u, posting)
    \/ \E o \in Outcomes : OpenShiftAttempt(o)
    \/ \E u \in Users, p \in Profiles : GetActiveShift(u, p)
    \/ \E s \in 1..MaxShifts, e \in BOOLEAN : CallCloseShift(s, e)
    \/ \E o \in Outcomes : CloseShiftAttempt(o)

SpecShift == Init /\ [][NextShift]_vars

Batches == SeqsUpTo(InvoiceDicts, MaxBatch)

NextSync ==
    \/ SyncPosInvoices(FALSE, <<>>, {})
    \/ \E invoices \in Batches :
          \E fails \in SUBSET {i \in 1..Len(invoices) : invoices[i].posting} :
             SyncPosInvoices(TRUE, invoices, fails)

SpecSync == Init /\ [][NextSync]_vars

\* ---- sales: the request is drawn at the start, the endpoint serves it.
\* Rows of a payments list, and items of an items list.
MaxPayments == 2
MaxItems == 1

Opt(key, o) == IF o = <<>> THEN <<>> ELSE (key :> o[1])

\* Amounts around an invoice of 1.00: the same, a cent off, further off.
PaymentAmounts == {0, 99, 100, 101, 150}

\* Items without discount whose amounts are 0.01, 1.00 and 1.49.
PlainItems ==
    {("item_code" :> "B") @@ ("qty" :> 1) @@ ("rate" :> r) @@ Opt("item_tax_template", t) :
        r \in {1, 100, 149}, t \in {<<>>, <<"T1">>}}

SaleRequests ==
    {[NoData EXCEPT !.type = "sale", !.posting = TRUE, !.items = i, !.payments = p,
                    !.disable_rounded_total = nr, !.paid_from_rows = pf,
                    !.included_in_print_rate = inc, !.raises = x] :
        i \in SeqsUpTo(PlainItems, MaxItems), p \in SeqsUpTo(PaymentAmounts, MaxPayments),
        nr \in BOOLEAN, pf \in BOOLEAN, inc \in {0, 1}, x \in {"none", "submit"}}

RouteRequests ==
    {[NoData EXCEPT !.type = t, !.posting = a, !.return_against = b,
                    !.reference_date = c, !.raises = x,
                    !.items = <<("item_code" :> "A") @@ ("qty" :> 1) @@ ("rate" :> 100)>>,
                    !.payments = <<100>>] :
        t \in {None, "", "sale", "refund", "exchange", "gateway_refund", "order"},
        a \in BOOLEAN, b \in BOOLEAN, c \in BOOLEAN, x \in {"none", "insert", "submit"}}

InitSale ==
    /\ db = EmptyDb
    /\ committed = EmptyDb
    /\ pc = "idle"
    /\ retry = 0
    /\ args = NoArgs
    /\ response = NoResponse
    /\ auth = NoAuth
    /\ cust = NoCust
    /\ sync = NoSync
    /\ page = NoPage
    /\ sale \in {[NoSale EXCEPT !.stage = "request", !.request = r] :
                    r \in SaleRequests \cup RouteRequests}

NextSale == SyncPosTransaction

SpecSale == InitSale /\ [][NextSale]_vars

\* ---- discounts: sales whose items carry every mix of rate and discounts.
\* No value pair gives an exact half cent, whose rounding would depend on the
\* binary representation of the float.
DiscountItems ==
    {("item_code" :> c) @@ ("qty" :> 1) @@ Opt("rate", r)
        @@ Opt("discount_amount", da) @@ Opt("discount_percentage", dp) :
        c \in {"A", "B"}, r \in {<<>>, <<0>>, <<105>>, <<1000>>},
        da \in {<<>>, <<0>>, <<30>>, <<2000>>}, dp \in {<<>>, <<0>>, <<33>>, <<150>>}}

DiscountRequests ==
    {[NoData EXCEPT !.type = "sale", !.posting = TRUE, !.items = i, !.payments = <<0>>,
                    !.paid_from_rows = pf] :
        i \in SeqsUpTo(DiscountItems, MaxItems) \ {<<>>}, pf \in BOOLEAN}

InitDiscount ==
    /\ db = EmptyDb
    /\ committed = EmptyDb
    /\ pc = "idle"
    /\ retry = 0
    /\ args = NoArgs
    /\ response = NoResponse
    /\ auth = NoAuth
    /\ cust = NoCust
    /\ sync = NoSync
    /\ page = NoPage
    /\ sale \in {[NoSale EXCEPT !.stage = "request", !.request = r] : r \in DiscountRequests}

SpecDiscount == InitDiscount /\ [][NextSale]_vars

\* ---- tax templates: sales whose items name Item Tax Templates, on POS
\* Profiles with and without tax rows of their own.
MaxTaxItems == 2

TaxItems ==
    {("item_code" :> "B") @@ ("qty" :> 1) @@ ("rate" :> 100) @@ Opt("item_tax_template", t) :
        t \in {<<>>, <<"T1">>, <<"T2">>}}

\* Tax rows that come from the Sales Taxes and Charges Template of the POS
\* Profile.
ProfileTax(charge_type, account_head, rate, included) ==
    [charge_type |-> charge_type, account_head |-> account_head, rate |-> rate,
     included_in_print_rate |-> included]

\* The document engine refuses an "Actual" row on an inclusive invoice, so
\* the freight row comes only with included_in_print_rate 0.
ProfileTaxes(included_in_print_rate) ==
    {<<>>,
     <<ProfileTax("On Net Total", "VAT - C", 7, 0)>>,
     <<ProfileTax("On Net Total", "VAT - C", 7, 1)>>,
     <<ProfileTax("On Net Total", "CESS - C", 2, 0)>>}
    \cup (IF included_in_print_rate = 0
          THEN {<<ProfileTax("Actual", "Freight - C", 0, 0)>>,
                <<ProfileTax("Actual", "Freight - C", 0, 0),
                  ProfileTax("On Net Total", "VAT - C", 7, 0)>>}
          ELSE {})

TaxRequests ==
    UNION {{[NoData EXCEPT !.type = "sale", !.posting = TRUE, !.items = i,
                           !.payments = <<100>>, !.profile_taxes = t,
                           !.paid_from_rows = pf,
                           !.included_in_print_rate = inc, !.raises = x] :
                i \in SeqsUpTo(TaxItems, MaxTaxItems), t \in ProfileTaxes(inc),
                pf \in BOOLEAN, x \in {"none", "submit"}} : inc \in {0, 1}}

InitTax ==
    /\ db = EmptyDb
    /\ committed = EmptyDb
    /\ pc = "idle"
    /\ retry = 0
    /\ args = NoArgs
    /\ response = NoResponse
    /\ auth = NoAuth
    /\ cust = NoCust
    /\ sync = NoSync
    /\ page = NoPage
    /\ sale \in {[NoSale EXCEPT !.stage = "request", !.request = r] : r \in TaxRequests}

SpecTax == InitTax /\ [][NextSale]_vars

\* ---- pages: the tables and the request are drawn at the start.
\* modified is 1 or 2 and the cursor, when given, is 1.
CustomerTables == [Names -> [modified : {1, 2}, disabled : BOOLEAN, matches : BOOLEAN]]
ItemTables == [Names -> [modified : {1, 2}, listed : BOOLEAN, matches : BOOLEAN]]

LastUpdatedTimes ==
    {NoLastUpdated, [kind |-> "invalid", time |-> 0], [kind |-> "time", time |-> 1]}

\* Whether the UPDATE raises matters only to a call that reaches it.
UpdateOutcomes(last_updated_time) ==
    IF last_updated_time.kind = "time" THEN BOOLEAN ELSE {TRUE}

\* Times are whole seconds, as last_updated_time's format has them, and the
\* time of a call is one.
\* A last_updated_time with the outcome of the UPDATE.
Cursors == UNION {{<<t, u>> : u \in UpdateOutcomes(t)} : t \in LastUpdatedTimes}

CustomerRequests ==
    {[NoRequest EXCEPT !.endpoint = "get_customers", !.start = s, !.page_length = l,
                       !.search_term = q, !.last_updated_time = c[1], !.now = 3,
                       !.update_raises = c[2]] :
        s \in -1..2, l \in -1..2, q \in {"", "x"}, c \in Cursors}

\* The latest modified of an Item Price, which get_items reads only when
\* both last_updated_time and search_term are given.
PriceTimes(last_updated_time, search_term) ==
    IF last_updated_time.kind = "time" /\ search_term # "" THEN {1, 2} ELSE {1}

\* search_term with price_list and the item search_by_term finds.
SearchTerms ==
    {<<"", TRUE, 0>>, <<"x", FALSE, 0>>} \cup {<<"x", TRUE, h>> : h \in 0..MaxRows}

\* The cursor, the search and the price time of a get_items call.
ItemQueries ==
    UNION {{<<c, q, pm>> : pm \in PriceTimes(c[1], q[1])} : c \in Cursors, q \in SearchTerms}

ItemRequests ==
    {[NoRequest EXCEPT !.endpoint = "get_items", !.start = s, !.page_length = l,
                       !.search_term = x[2][1], !.price_list = x[2][2],
                       !.term_hit = x[2][3], !.last_updated_time = x[1][1],
                       !.price_modified = x[3], !.now = 3, !.update_raises = x[1][2]] :
        s \in -1..2, l \in -1..2, x \in ItemQueries}

\* The tables a call can tell apart: without a search_term no row's
\* `matches` is read.
TablesFor(tables, request) ==
    IF request.search_term = ""
    THEN {t \in tables : \A n \in DOMAIN t : t[n].matches}
    ELSE tables

InitPage ==
    /\ db = EmptyDb
    /\ committed = EmptyDb
    /\ pc = "idle"
    /\ retry = 0
    /\ args = NoArgs
    /\ response = NoResponse
    /\ auth = NoAuth
    /\ cust = NoCust
    /\ sync = NoSync
    /\ sale = NoSale
    /\ \/ \E r \in CustomerRequests : \E c \in TablesFor(CustomerTables, r) :
             page = [NoPage EXCEPT !.stage = "request", !.request = r, !.customers = c]
       \/ \E r \in ItemRequests : \E i \in TablesFor(ItemTables, r) :
             page = [NoPage EXCEPT !.stage = "request", !.request = r, !.items = i]

NextPage == GetCustomers \/ GetItems

SpecPage == InitPage /\ [][NextPage]_vars

\* ---- callers: a first call with start = 0, a page_length of at least 1 and
\* a well-formed last_updated_time, made when the clock shows 2, so that no
\* row has a modified time in the future.
FirstCalls(requests) ==
    {r \in {[q EXCEPT !.now = 2] : q \in requests} :
        /\ r.start = 0
        /\ r.page_length >= 1
        /\ r.price_list
        /\ r.last_updated_time.kind # "invalid"}

Modes(request) ==
    IF request.last_updated_time.kind = "time" THEN {"paging", "cursor"} ELSE {"paging"}

InitClient ==
    /\ db = EmptyDb
    /\ committed = EmptyDb
    /\ pc = "idle"
    /\ retry = 0
    /\ args = NoArgs
    /\ response = NoResponse
    /\ auth = NoAuth
    /\ cust = NoCust
    /\ sync = NoSync
    /\ sale = NoSale
    /\ \E r \in FirstCalls(CustomerRequests \cup ItemRequests) :
       \E m \in Modes(r) :
          \/ /\ r.endpoint = "get_customers"
             /\ \E c \in TablesFor(CustomerTables, r) :
                   page = [NoPage EXCEPT !.stage = "request", !.request = r, !.customers = c,
                              !.client = [NoClient EXCEPT !.mode = m, !.initial = c]]
          \/ /\ r.endpoint = "get_items"
             /\ \E i \in TablesFor(ItemTables, r) :
                   page = [NoPage EXCEPT !.stage = "request", !.request = r, !.items = i,
                              !.client = [NoClient EXCEPT !.mode = m, !.initial = i]]

NextClient == GetCustomers \/ GetItems \/ FollowNextOffset \/ AdvanceCursor

\* The endpoints answer every call and the caller goes on while it has a
\* next call to make.
SpecClient == InitClient /\ [][NextClient]_vars /\ WF_vars(NextClient)

\* ---- logins: which users exist, which of them are GolPos users with which
\* company links, and which POS Profiles are disabled, are drawn at the start.
CompanyLinks == {<<>>, <<"c1">>, <<"c1", "c2">>, <<"", "c2">>}

GolposTables == UNION {[S -> CompanyLinks] : S \in SUBSET Users}

InitAuth ==
    /\ db = EmptyDb
    /\ committed = EmptyDb
    /\ pc = "idle"
    /\ retry = 0
    /\ args = NoArgs
    /\ response = NoResponse
    /\ cust = NoCust
    /\ sync = NoSync
    /\ sale = NoSale
    /\ page = NoPage
    /\ \E existing \in {{"u1"}, {"u1", "u2"}}, g \in GolposTables,
          d \in SUBSET DOMAIN PosProfileCompany :
          auth = [NoAuth EXCEPT !.users = [u \in existing |-> NewUser],
                                !.golpos = g, !.disabled = d]

NextAuth ==
    \/ \E u \in Users, pw \in Passwords, raises \in BOOLEAN : LoginDevice(u, pw, raises)
    \/ \E u \in Users, raises \in BOOLEAN : GetApiKeys(u, raises)

SpecAuth == InitAuth /\ [][NextAuth]_vars

\* ---- customers
CustomerCalls ==
    [customer_name : BaseNames \cup {""}, company : BOOLEAN,
     contact : {"ok", "mobile_no", "email_id"}, auto_suffix_duplicate : BOOLEAN,
     sql_raises : BOOLEAN, insert_raises : BOOLEAN]

NextCust == \E c \in CustomerCalls : CreateCustomer(c)

SpecCust == Init /\ [][NextCust]_vars

\* ================================================================== claims
\* The Open POS Opening Entries of a user on a profile.
OpenShifts(d, u, p) ==
    {n \in 1..Len(d.opening) :
        /\ d.opening[n].user = u
        /\ d.opening[n].pos_profile = p
        /\ d.opening[n].status = "Open"}

\* The opening entries that a submitted POS Closing Entry closes.
ClosedShifts(d) ==
    {d.closing[c].pos_opening_entry :
        c \in {k \in 1..Len(d.closing) : d.closing[k].docstatus = 1}}

\* C1: at most one POS Opening Entry with status Open exists per (user,
\* pos_profile), and an open_shift attempt that finds one answers 'Shift
\* already open' with that entry as shift_id and writes no document.
C1_OneOpenShiftPerUserProfile ==
    /\ [](\A u \in Users, p \in Profiles : Cardinality(OpenShifts(db, u, p)) <= 1)
    /\ [][(pc = "open_shift" /\ OpenShifts(db, args.user, args.pos_profile) # {})
            => /\ response'.result = "error"
               /\ response'.text = "Shift already open"
               /\ response'.shift_id \in OpenShifts(db, args.user, args.pos_profile)
               /\ db' = db
               /\ committed' = committed]_vars

\* open_shift has answered 'Shift already open' naming the one open entry.
C1_Witness ==
    /\ response.text = "Shift already open"
    /\ response.shift_id \in DOMAIN db.opening
    /\ db.opening[response.shift_id].status = "Open"

\* C2: once close_shift has answered 'Shift closed successfully' for a shift
\* the shift is not Open, its user has no Open shift left on that profile (so
\* the next open_shift passes the existing-shift test), and neither
\* get_active_shift nor 'Shift already open' ever names it.
C2_ClosedShiftIsNotActive ==
    /\ \A s \in ClosedShifts(committed) : committed.opening[s].status = "Closed"
    /\ response.text = "Shift closed successfully"
         => /\ response.shift_id \in ClosedShifts(committed)
            /\ OpenShifts(db, db.opening[response.shift_id].user,
                          db.opening[response.shift_id].pos_profile) = {}
    /\ response.op = "get_active_shift" => response.shift_id \notin ClosedShifts(db)
    /\ response.text = "Shift already open" => response.shift_id \notin ClosedShifts(db)

\* A shift was closed and open_shift then opened a new one for the same user
\* and profile.
C2_Witness ==
    /\ response.text = "Shift opened successfully"
    /\ \E s \in ClosedShifts(committed) :
          /\ db.opening[s].user = db.opening[response.shift_id].user
          /\ db.opening[s].pos_profile = db.opening[response.shift_id].pos_profile

\* C3: a close_shift attempt on a Closed shift answers 'Shift already closed'
\* and writes nothing, and no POS Opening Entry has two POS Closing Entries.
C3_AtMostOneClosingEntry ==
    /\ [](\A o \in 1..Len(db.opening) :
            Cardinality({c \in 1..Len(db.closing) : db.closing[c].pos_opening_entry = o}) <= 1)
    /\ [][(/\ pc = "close_shift"
           /\ args.shift_id \in 1..Len(db.opening)
           /\ db.opening[args.shift_id].status = "Closed")
            => /\ response'.result = "error"
               /\ response'.text = "Shift already closed"
               /\ db' = db
               /\ committed' = committed]_vars

\* close_shift has answered 'Shift already closed' for a shift that has its
\* closing entry.
C3_Witness ==
    /\ response.text = "Shift already closed"
    /\ Len(db.closing) >= 1

\* C4: an attempt that ends in a retry has rolled back and happens only while
\* fewer than 5 attempts were made; QueryDeadlockError reaches the caller
\* exactly from the 5th attempt; after a retry or a raise the connection holds
\* the committed rows only, and no more than 5 attempts run.
C4_DeadlockRetry ==
    /\ [](retry \in 0..(max_retries - 1))
    /\ [](pc = "idle" => db = committed)
    /\ [][retry' = retry + 1
            => /\ pc \in {"open_shift", "close_shift"}
               /\ pc' = pc
               /\ retry < max_retries - 1
               /\ db' = committed
               /\ committed' = committed]_vars
    /\ [][(response'.text = "QueryDeadlockError" /\ pc # "idle")
            => /\ retry = max_retries - 1
               /\ pc' = "idle"
               /\ db' = committed
               /\ committed' = committed]_vars
    /\ [][(pc # "idle" /\ pc' = pc /\ retry' = retry) => UNCHANGED vars]_vars

\* The 5th attempt deadlocked: the error was raised and the tables hold at
\* least one committed document and nothing else.
C4_Witness ==
    /\ response.text = "QueryDeadlockError"
    /\ pc = "idle"
    /\ Len(db.opening) >= 1
    /\ db = committed

\* The system_invoice_ids that have a POS Invoice.
SyncedIds(d) == {d.invoices[n].custom_system_invoice_id : n \in 1..Len(d.invoices)}

\* The positions of the batch that synced reports, and that errors reports.
SyncedAt(r) == {r.synced[k].idx : k \in 1..Len(r.synced)}
ErrorsAt(r) == {r.errors[k].idx : k \in 1..Len(r.errors)}
CreatedAt(r) == {r.synced[k].idx : k \in {j \in 1..Len(r.synced) : r.synced[j].created}}

\* A sync_pos_invoices call that parsed its invoices_json has just run.
SyncStep == sync'.status = "ok" /\ (sync' # sync \/ db' # db)

\* An invoice whose system_invoice_id already has a POS Invoice is reported
\* in synced and not created again; no two POS Invoices share an id.
C5_NoDuplicate ==
    /\ [](\A m, n \in 1..Len(db.invoices) :
            db.invoices[m].custom_system_invoice_id = db.invoices[n].custom_system_invoice_id
              => m = n)
    /\ [][SyncStep =>
            \A i \in 1..Len(sync'.request) :
               sync'.request[i].system_invoice_id \in SyncedIds(db)
                 => /\ i \in SyncedAt(sync') \ CreatedAt(sync')
                    /\ Cardinality({n \in 1..Len(db'.invoices) :
                          db'.invoices[n].custom_system_invoice_id
                            = sync'.request[i].system_invoice_id}) = 1]_vars

\* C5 as stated: invoices that already have a POS Invoice are not created
\* again, and sending the invoices_json of the previous call again leaves
\* the POS Invoices as they are.
C5_ResendChangesNothing ==
    /\ C5_NoDuplicate
    /\ [][(SyncStep /\ sync.status = "ok" /\ sync'.request = sync.request)
            => db'.invoices = db.invoices]_vars

\* C5 amended: invoices that already have a POS Invoice are not created
\* again, and sending the invoices_json of the previous call again creates
\* POS Invoices only for invoices the previous call reported in errors; when
\* it reported none, the POS Invoices stay as they are.
C5_ResendCreatesOnlyFailed ==
    /\ C5_NoDuplicate
    /\ [][(SyncStep /\ sync.status = "ok" /\ sync'.request = sync.request)
            => /\ CreatedAt(sync') \subseteq ErrorsAt(sync)
               /\ Len(db'.invoices) = Len(db.invoices) + Cardinality(CreatedAt(sync'))
               /\ sync.errors = <<>> => db'.invoices = db.invoices]_vars

\* A batch was sent whose invoices all had their POS Invoice already.
C5_Witness ==
    /\ sync.status = "ok"
    /\ Len(sync.request) >= 2
    /\ sync.errors = <<>>
    /\ CreatedAt(sync) = {}
    /\ Len(db.invoices) >= 1

\* The parts of C6 that do not depend on why an invoice is in errors: every
\* position of the batch is reported once, in synced or in errors; the POS
\* Invoices after the call are those before it followed by one per created
\* invoice, all committed; an invoice whose insert raises is in errors; and
\* an invoices_json that does not parse changes nothing.
C6_Independent ==
    /\ [](sync.status = "ok"
            => /\ Len(sync.synced) + Len(sync.errors) = Len(sync.request)
               /\ SyncedAt(sync) \cup ErrorsAt(sync) = 1..Len(sync.request)
               /\ SyncedAt(sync) \cap ErrorsAt(sync) = {})
    /\ [](db = committed)
    /\ [][SyncStep =>
            /\ Len(db'.invoices) = Len(db.invoices) + Cardinality(CreatedAt(sync'))
            /\ SubSeq(db'.invoices, 1, Len(db.invoices)) = db.invoices
            /\ \A k \in 1..Len(sync'.synced) :
                  sync'.synced[k].created
                    => /\ sync'.synced[k].name \in 1..Len(db'.invoices)
                       /\ db'.invoices[sync'.synced[k].name].custom_system_invoice_id
                            = sync'.request[sync'.synced[k].idx].system_invoice_id
            /\ \A i \in 1..Len(sync'.request) :
                  (i \in sync'.fails /\ i \notin SyncedAt(sync')) => i \in ErrorsAt(sync')]_vars
    /\ [][sync'.status = "Invalid JSON" => (db' = db /\ committed' = committed)]_vars

\* C6 as stated: every invoice that lacks posting_date or posting_time is
\* reported in errors.
C6_MissingPostingIsError ==
    /\ C6_Independent
    /\ [](sync.status = "ok"
            => \A i \in 1..Len(sync.request) :
                  ~sync.request[i].posting => i \in ErrorsAt(sync))

\* C6 amended: an invoice that lacks posting_date or posting_time is reported
\* in errors unless its system_invoice_id already has a POS Invoice when the
\* loop reaches it, and then it is reported in synced; in neither case is a
\* POS Invoice created for it.
C6_MissingPostingIsErrorUnlessSynced ==
    /\ C6_Independent
    /\ [][SyncStep =>
            \A i \in 1..Len(sync'.request) :
               ~sync'.request[i].posting
                 => /\ i \notin CreatedAt(sync')
                    /\ i \in ErrorsAt(sync')
                         <=> ~(\/ sync'.request[i].system_invoice_id \in SyncedIds(db)
                               \/ \E j \in CreatedAt(sync') :
                                     /\ j < i
                                     /\ sync'.request[j].system_invoice_id
                                          = sync'.request[i].system_invoice_id)]_vars

\* A batch whose first invoice was created and committed and whose second
\* failed and is in errors.
C6_Witness ==
    /\ sync.status = "ok"
    /\ Len(sync.request) = 2
    /\ CreatedAt(sync) = {1}
    /\ ErrorsAt(sync) = {2}
    /\ 2 \in sync.fails
    /\ sync.request[2].posting
    /\ Len(committed.invoices) >= 1

\* C7: when create_pos_sale reaches submit the payment rows sum to the
\* invoice total within 0.01, paid_amount is that total and outstanding_amount
\* is 0; an invoice without payment rows whose total is more than 0.01 raises
\* 'Payment amount mismatch' and nothing is submitted.
C7_PaidAmountEqualsTotal ==
    (sale.stage = "done" /\ sale.request.type = "sale")
      => /\ sale.out.at_submit
              => /\ Abs(PaymentTotal(sale.out.doc) - InvoiceTotal(sale.out.doc)) <= 1
                 /\ sale.out.doc.paid_amount = InvoiceTotal(sale.out.doc)
                 /\ sale.out.doc.outstanding_amount = 0
         /\ (/\ sale.out.inserted >= 1
             /\ sale.request.payments = <<>>
             /\ Abs(InvoiceTotal(sale.out.doc)) > 1)
              => /\ sale.out.result = "raised"
                 /\ sale.out.text = "Payment amount mismatch"
                 /\ sale.out.submitted = 0
                 /\ db = EmptyDb

\* C8: on the invoice create_pos_sale submits, an item sent with a rate and a
\* discount_amount has the rate max(rate - discount_amount, 0), whatever its
\* discount_percentage; one sent with a rate and only a discount_percentage
\* has max(rate * (1 - percentage/100), 0) to the nearest cent; neither is
\* negative nor carries a discount field any more; and an item sent with a
\* rate and no discount field keeps its rate.
C8_DiscountNormalization ==
    (sale.stage = "done" /\ sale.request.type = "sale" /\ sale.out.inserted >= 1)
      => \A i \in 1..Len(sale.request.items) :
            LET item == sale.request.items[i]
                row == sale.out.doc.items[i]
            IN Has(item, "rate")
                 => IF Has(item, "discount_amount")
                    THEN /\ row.rate = Max(item["rate"] - item["discount_amount"], 0)
                         /\ row.discount_amount = 0
                         /\ row.discount_percentage = 0
                    ELSE IF Has(item, "discount_percentage")
                    THEN /\ Abs(100 * row.rate
                                - Max(item["rate"] * (100 - item["discount_percentage"]), 0)) <= 50
                         /\ row.rate >= 0
                         /\ row.discount_amount = 0
                         /\ row.discount_percentage = 0
                    ELSE row.rate = item["rate"]

\* A sale was submitted whose item came with a rate, a discount_amount smaller
\* than it and a discount_percentage, for an item that has a list price.
C8_Witness ==
    /\ sale.stage = "done"
    /\ sale.out.result = "ok"
    /\ Len(sale.request.items) >= 1
    /\ Has(sale.request.items[1], "rate")
    /\ Has(sale.request.items[1], "discount_amount")
    /\ Has(sale.request.items[1], "discount_percentage")
    /\ sale.request.items[1]["discount_percentage"] > 0
    /\ sale.request.items[1]["item_code"] = "A"
    /\ sale.out.doc.items[1].rate = 75

HandlerOf(t) ==
    CASE t = "sale" -> "create_pos_sale"
      [] t = "refund" -> "create_pos_refund"
      [] t = "exchange" -> "create_pos_exchange"
      [] t = "gateway_refund" -> "log_gateway_refund"
      [] OTHER -> "none"

\* C9: a request of type sale, refund, exchange or gateway_refund runs its
\* own handler and no other; a request with any other type, or without one,
\* raises, runs no handler and inserts nothing; and a sale without posting
\* date and time, a refund or exchange without return_against and a
\* gateway_refund without reference_date raise with nothing inserted.
C9_Routing ==
    sale.stage = "done"
      => LET d == sale.request
             o == sale.out
         IN /\ HandlerOf(d.type) # "none" => o.handlers = {HandlerOf(d.type)}
            /\ HandlerOf(d.type) = "none"
                 => /\ o.handlers = {}
                    /\ o.result = "raised"
                    /\ o.inserted = 0
                    /\ db = EmptyDb
            /\ (\/ d.type = "sale" /\ ~d.posting
                \/ d.type \in {"refund", "exchange"} /\ ~d.return_against
                \/ d.type = "gateway_refund" /\ ~d.reference_date)
                 => /\ o.result = "raised"
                    /\ o.inserted = 0
                    /\ db = EmptyDb

\* A refund without return_against was refused before anything was inserted.
C9_Witness ==
    /\ sale.stage = "done"
    /\ sale.request.type = "refund"
    /\ ~sale.request.return_against
    /\ sale.out.result = "raised"
    /\ sale.out.handlers = {"create_pos_refund"}
    /\ sale.out.inserted = 0

\* limit, offset and next_offset of a page, which C10 states alike in both
\* forms: limit is page_length, offset is start, next_offset is start +
\* page_length when has_more and null otherwise, and an empty page has
\* has_more false.
C10_Metadata ==
    (page.stage = "done" /\ page.out.kind = "page")
      => /\ page.out.limit = page.request.page_length
         /\ page.out.offset = page.request.start
         /\ page.out.next_offset =
               IF page.out.has_more
               THEN <<page.request.start + page.request.page_length>> ELSE <<>>
         /\ page.out.rows = <<>> => (~page.out.has_more /\ page.out.next_offset = <<>>)

\* C10 as stated: has_more is true exactly when start + page_length < total.
C10_HasMoreIffBelowTotal ==
    /\ C10_Metadata
    /\ (page.stage = "done" /\ page.out.kind = "page")
         => (page.out.has_more
               <=> page.request.start + page.request.page_length < page.out.total)

\* C10 amended: has_more is true exactly when the fetched page is not empty
\* and start + page_length < total.
C10_HasMoreIffRowsAndBelowTotal ==
    /\ C10_Metadata
    /\ (page.stage = "done" /\ page.out.kind = "page")
         => (page.out.has_more
               <=> /\ page.out.rows # <<>>
                   /\ page.request.start + page.request.page_length < page.out.total)

\* get_customers returned a first page of one row out of two, with has_more
\* and next_offset 1.
C10_Witness ==
    /\ page.stage = "done"
    /\ page.request.endpoint = "get_customers"
    /\ page.out.kind = "page"
    /\ Len(page.out.rows) = 1
    /\ page.out.total = 2
    /\ page.out.has_more
    /\ page.out.next_offset = <<1>>

\* The table the running call reads.
TableOf(pg) == IF pg.request.endpoint = "get_items" THEN pg.items ELSE pg.customers

\* A get_items or get_customers call has just returned.
PageStep == page.stage = "request" /\ page'.stage = "done"

\* C11: every get_items call that does not answer an error returns the
\* payload with items, total, limit, offset, has_more and next_offset.
C11_DocumentedPayload ==
    (/\ page.stage = "done"
     /\ page.request.endpoint = "get_items"
     /\ page.out.kind # "error")
      => page.out.kind = "page"

\* C12: with last_updated_time given, every row a call returns had modified
\* strictly later than last_updated_time when the call ran, whatever the
\* other parameters; a last_updated_time not in the format is answered
\* with status 400 and leaves the tables as they are.
C12_OnlyModifiedAfter ==
    [][PageStep =>
         /\ page.request.last_updated_time.kind = "time"
              => \A k \in 1..Len(page'.out.rows) :
                    ModifiedAfter(TableOf(page)[page'.out.rows[k]],
                                  page.request.last_updated_time)
         /\ page.request.last_updated_time.kind = "invalid"
              => /\ page'.out = ErrorOut(400)
                 /\ page'.items = page.items
                 /\ page'.customers = page.customers]_vars

\* The rows a sequence of rows names.
Range(q) == {q[k] : k \in 1..Len(q)}

Matching(pg) ==
    {n \in DOMAIN pg.client.initial :
        /\ IF pg.request.endpoint = "get_items"
           THEN pg.client.initial[n].listed ELSE ~pg.client.initial[n].disabled
        /\ pg.request.search_term # "" => pg.client.initial[n].matches
        /\ Given(pg.request.last_updated_time)
             => pg.client.initial[n].modified > pg.request.last_updated_time.time}

\* The caller has the last page: a page with has_more false.
LastPage == page.stage = "done" /\ page.out.kind = "page" /\ ~page.out.has_more

LoginAccepted ==
    /\ auth.call.user \in DOMAIN auth.users
    /\ auth.users[auth.call.user].password = auth.call.password

\* The non-disabled POS Profiles of a company.
EnabledProfiles(c) ==
    {pp \in DOMAIN PosProfileCompany : PosProfileCompany[pp] = c /\ pp \notin auth.disabled}

\* The companies linked to a GolPos user.
LinkedCompanies(u) == {auth.golpos[u][k] : k \in 1..Len(auth.golpos[u])} \ {""}

\* C14: login_device returns api_key and api_secret only when
\* check_password accepts the credentials and the user has a GolPos User
\* record; invalid credentials get 'Invalid credentials' with status 401 and
\* a user without a GolPos User record gets 'User not found in GolPos
\* system', both without a key or secret generated or returned; and the
\* companies returned are the companies linked to the GolPos User, each with
\* its non-disabled POS Profiles.
C14_LoginDevice ==
    /\ [](auth.call.op = "login_device" =>
            /\ (auth.out.api_key # 0 \/ auth.out.api_secret # 0)
                 => (LoginAccepted /\ auth.call.user \in DOMAIN auth.golpos)
            /\ ~LoginAccepted
                 => auth.out = [NoReply EXCEPT !.http_status_code = 401,
                                               !.error = "Invalid credentials"]
            /\ (LoginAccepted /\ auth.call.user \notin DOMAIN auth.golpos)
                 => /\ auth.out.error = "User not found in GolPos system"
                    /\ auth.out.api_key = 0
                    /\ auth.out.api_secret = 0
            /\ (LoginAccepted /\ auth.call.user \in DOMAIN auth.golpos)
                 => /\ auth.out.error = ""
                    /\ auth.out.api_key = auth.users[auth.call.user].api_key
                    /\ auth.out.api_secret = auth.users[auth.call.user].api_secret
                    /\ auth.out.api_key # 0
                    /\ auth.out.api_secret # 0
                    /\ DOMAIN auth.out.companies = LinkedCompanies(auth.call.user)
                    /\ \A c \in DOMAIN auth.out.companies :
                          auth.out.companies[c] = EnabledProfiles(c))
    /\ [][(auth'.call.op = "login_device" /\ auth'.out.error # "")
            => (auth'.users = auth.users /\ auth'.hashes = auth.hashes)]_vars

\* A login that returned keys and company c1 with pp1 only, pp2 being
\* disabled.
C14_Witness ==
    /\ auth.call.op = "login_device"
    /\ auth.out.api_key # 0
    /\ auth.out.api_secret # 0
    /\ "pp2" \in auth.disabled
    /\ DOMAIN auth.out.companies = {"c1"}
    /\ auth.out.companies["c1"] = {"pp1"}

\* A call that ran get_api_keys for a user has just returned.
KeysStep ==
    /\ auth'.call.op \in {"get_api_keys", "login_device"}
    /\ auth'.out.http_status_code = 200
    /\ auth'.out.error = ""

\* The user of the call had an api_key and an api_secret before it.
HadBoth ==
    /\ auth.users[auth'.call.user].api_key # 0
    /\ auth.users[auth'.call.user].api_secret # 0

\* The call returned the keys the user had and saved nothing.
SameKeys ==
    /\ auth'.out.api_key = auth.users[auth'.call.user].api_key
    /\ auth'.out.api_secret = auth.users[auth'.call.user].api_secret
    /\ auth'.users = auth.users
    /\ auth'.hashes = auth.hashes

SuffixStep ==
    /\ cust'.call.auto_suffix_duplicate
    /\ cust'.call.customer_name # ""
    /\ cust'.call.company
    /\ cust'.call.contact = "ok"
    /\ ~cust'.call.insert_raises
    /\ Name(cust'.call.customer_name, 0) \in cust.names
    /\ cust' # cust

\* C16: when a Customer named customer_name exists and auto_suffix_duplicate
\* is true, _get_available_name returns a name that no customer has, and
\* create_customer creates the customer under it, a name of the form
\* "<customer_name> (N)" with N >= 2.
C16_SuffixedNameIsNew ==
    [][SuffixStep =>
         /\ cust'.out.target_name \notin cust.names
         /\ cust'.out.result = "created"
         /\ cust'.out.customer = cust'.out.target_name
         /\ \E n \in 2..(MaxCustomers + 1) :
               cust'.out.customer = Name(cust'.call.customer_name, n)
         /\ cust'.names = cust.names \cup {cust'.out.customer}]_vars

\* The Item Tax Template Detail rows of the items of a request, item by item
\* and by idx within a template.
RECURSIVE TemplateDetails(_)
TemplateDetails(items) ==
    IF items = <<>> THEN <<>>
    ELSE (IF Has(Head(items), "item_tax_template")
          THEN ItemTaxTemplateDetail[Head(items)["item_tax_template"]]
          ELSE <<>>) \o TemplateDetails(Tail(items))

\* The rate of the first detail with this tax_type.
FirstRate(details, tax_type) ==
    LET first == CHOOSE j \in 1..Len(details) :
                    /\ details[j].tax_type = tax_type
                    /\ \A i \in 1..(j - 1) : details[i].tax_type # tax_type
    IN details[first].tax_rate

\* A sale that reached doc.submit().
SaleAtSubmit ==
    /\ sale.stage = "done"
    /\ sale.request.type = "sale"
    /\ sale.out.at_submit

\* C17: at submit the invoice of create_pos_sale has a tax row for every
\* tax_type of the Item Tax Templates of its items; the rows it had before
\* the expansion are kept; a row is added only for an account_head that had
\* no row, once, with charge_type "On Net Total" and the rate of the first
\* template detail seen for that tax_type; and on an invoice with
\* included_in_print_rate set every tax row has included_in_print_rate = 1.
C17_TaxTemplateExpansion ==
    SaleAtSubmit =>
       LET data == sale.request
           taxes == sale.out.doc.taxes
           before == data.profile_taxes
           details == TemplateDetails(data.items)
           tax_types == {details[j].tax_type : j \in 1..Len(details)}
           added == (Len(before) + 1)..Len(taxes)
       IN /\ \A t \in tax_types : \E k \in 1..Len(taxes) : taxes[k].account_head = t
          /\ Len(taxes) >= Len(before)
          /\ \A k \in 1..Len(before) :
                /\ taxes[k].account_head = before[k].account_head
                /\ taxes[k].charge_type = before[k].charge_type
                /\ taxes[k].rate = before[k].rate
          /\ \A k \in added :
                /\ taxes[k].account_head \in tax_types
                /\ \A j \in 1..Len(taxes) : j # k => taxes[j].account_head # taxes[k].account_head
                /\ taxes[k].charge_type = "On Net Total"
                /\ taxes[k].rate = FirstRate(details, taxes[k].account_head)
          /\ data.included_in_print_rate # 0 =>
                \A k \in 1..Len(taxes) : taxes[k].included_in_print_rate = 1
          /\ data.included_in_print_rate = 0 =>
                \A k \in added : taxes[k].included_in_print_rate = 0

\* An inclusive invoice whose POS Profile has a CESS row at 2% not marked
\* inclusive, with an item on T1 (VAT 10%) and then one on T2 (VAT 5%, CESS
\* 1%): the CESS row is kept, VAT is added at 10%, both rows are inclusive.
C17_Witness ==
    /\ SaleAtSubmit
    /\ sale.request.included_in_print_rate = 1
    /\ sale.request.profile_taxes = <<ProfileTax("On Net Total", "CESS - C", 2, 0)>>
    /\ Len(sale.request.items) = 2
    /\ Get(sale.request.items[1], "item_tax_template", None) = "T1"
    /\ Get(sale.request.items[2], "item_tax_template", None) = "T2"
    /\ sale.out.doc.taxes = <<ProfileTax("On Net Total", "CESS - C", 2, 1),
                              ProfileTax("On Net Total", "VAT - C", 10, 1)>>

====
